---- MODULE Spec2Model ----
(***************************************************************************)
(* A model of examples/shorturl.rs: an axum service with two handlers over *)
(* one SQLite table                                                        *)
(*     short_urls (id TEXT PRIMARY KEY, url TEXT NOT NULL UNIQUE).         *)
(* POST / runs AppState::shorten (draw a nanoid, then ONE upsert           *)
(* statement); GET /:id runs AppState::get_url (ONE select) and builds a   *)
(* redirect.  Strings are sequences of byte codes.  Every statement is     *)
(* atomic in SQLite; handlers of different connections interleave at their *)
(* await points, i.e. between drawing the id and executing the statement.  *)
(* The store is assumed to answer (no I/O failure) in Spec.                *)
(***************************************************************************)
EXTENDS Integers, Sequences, FiniteSets, TLC

\* ------------------------------------------------------------------ bounds
\* number of distinct identifiers the random generator is allowed to draw
MaxSym == 2
\* number of times the service is started on the same database file
MaxBoots == 2

\* --------------------------------------------------------------- constants
\* nanoid!(6): the identifier has six symbols
NanoidLen == 6
\* the nanoid crate's default alphabet has 64 symbols, indexed 0..63
AlphabetSize == 64

\* the client connections whose handlers may be in flight together
Procs == {1, 2}

\* ----------------------------------------------------------------- strings
\* "http://a"
UrlA == <<104, 116, 116, 112, 58, 47, 47, 97>>
\* "http://b"
UrlB == <<104, 116, 116, 112, 58, 47, 47, 98>>
\* ""
EmptyUrl == <<>>
\* "not a url"
NotAUrl == <<110, 111, 116, 32, 97, 32, 117, 114, 108>>
\* "http://a\nb" (a JSON body may carry the escape \n)
CtlUrl == <<104, 116, 116, 112, 58, 47, 47, 97, 10, 98>>

\* the request bodies the model posts: ShortenReq.url is any String
Urls == {UrlA, UrlB, EmptyUrl, NotAUrl, CtlUrl}

\* nanoid!(5): one symbol short
IdOfFive(s) == [i \in 1..(NanoidLen - 1) |-> IF i = NanoidLen - 1 THEN s ELSE 0]

\* the identifier whose last symbol is s, all others symbol 0
IdOf(s) == [i \in 1..NanoidLen |-> IF i = NanoidLen THEN s ELSE 0]

\* the values nanoid!(6) may return, cut down to MaxSym of them
Candidates == {IdOf(s) : s \in 0..(MaxSym - 1)}

\* an identifier nanoid is never allowed to draw in the model ("zzzzzz")
NeverIssued == [i \in 1..NanoidLen |-> AlphabetSize - 1]

\* the path segments GET /:id is called with
PathIds == Candidates \cup {NeverIssued}

IsAlpha(b) == (b >= 65 /\ b <= 90) \/ (b >= 97 /\ b <= 122)

\* "non-empty, syntactically well-formed absolute URL": a scheme of letters,
\* a colon, and only visible non-space ASCII.  The program has no such test;
\* the properties below use it to say which inputs they speak about.
IsWellFormedUrl(s) ==
    /\ Len(s) > 0
    /\ \A i \in 1..Len(s) : s[i] > 32 /\ s[i] < 127
    /\ \E k \in 2..Len(s) :
          /\ s[k] = 58
          /\ \A j \in 1..(k - 1) : IsAlpha(s[j])

\* ------------------------------------------------------------------- state
VARIABLES
    store,   \* the rows of short_urls: a set of [id, url]
    pc,      \* where each connection's handler is
    req,     \* the request a handler is serving
    resp,    \* the response a handler last produced
    raced,   \* whether the call overlapped another shorten of the same url
    lapped,  \* whether the call overlapped another shorten call at all
    issued,  \* the [id, url] pairs AppState::shorten has returned Ok for
    boots,   \* how many times AppState::try_new has run on the location
    kept     \* the rows the table held when try_new last ran

vars == <<store, pc, req, resp, raced, lapped, issued, boots, kept>>

\* what only a run of try_new changes
boot == <<boots, kept>>

NoReq == [op |-> "none", url |-> <<>>, id |-> <<>>]

NoResp == [op |-> "none", status |-> "NONE", url |-> <<>>, id |-> <<>>,
           cand |-> <<>>, err |-> "", location |-> <<>>, body |-> <<>>,
           trips |-> 0]

\* ------------------------------------------------------- the SQL statements
RowsWithUrl(st, url) == {r \in st : r.url = url}

RowsWithId(st, id) == {r \in st : r.id = id}

\* ---- variants of the statement, each a plausible slip in its SQL text ----
\* ... DO UPDATE SET id=EXCLUDED.id: a re-submission re-keys the row
UpsertSetsId(st, id, url) ==
    IF RowsWithUrl(st, url) # {}
    THEN LET old == CHOOSE r \in RowsWithUrl(st, url) : TRUE
             new == [old EXCEPT !.id = id]
         IN  IF RowsWithId(st \ {old}, id) # {}
             THEN [ok |-> FALSE, id |-> <<>>, err |-> "UniqueViolation",
                   store |-> st]
             ELSE [ok |-> TRUE, id |-> new.id, err |-> "",
                   store |-> (st \ {old}) \cup {new}]
    ELSE IF RowsWithId(st, id) # {}
    THEN [ok |-> FALSE, id |-> <<>>, err |-> "UniqueViolation", store |-> st]
    ELSE [ok |-> TRUE, id |-> id, err |-> "",
          store |-> st \cup {[id |-> id, url |-> url]}]

\* a plain INSERT ... RETURNING id into a table whose url column is not UNIQUE
UpsertNoUrlUnique(st, id, url) ==
    IF RowsWithId(st, id) # {}
    THEN [ok |-> FALSE, id |-> <<>>, err |-> "UniqueViolation", store |-> st]
    ELSE [ok |-> TRUE, id |-> id, err |-> "",
          store |-> st \cup {[id |-> id, url |-> url]}]

\* the same statement on a table whose id column is not a PRIMARY KEY
UpsertNoPrimaryKey(st, id, url) ==
    IF RowsWithUrl(st, url) # {}
    THEN LET old == CHOOSE r \in RowsWithUrl(st, url) : TRUE
         IN  [ok |-> TRUE, id |-> old.id, err |-> "", store |-> st]
    ELSE [ok |-> TRUE, id |-> id, err |-> "",
          store |-> st \cup {[id |-> id, url |-> url]}]

\* INSERT OR REPLACE INTO short_urls ... RETURNING id: conflicting rows go
UpsertReplace(st, id, url) ==
    [ok |-> TRUE, id |-> id, err |-> "",
     store |-> (st \ (RowsWithUrl(st, url) \cup RowsWithId(st, id)))
                  \cup {[id |-> id, url |-> url]}]

\* the PRIMARY KEY probed before the url index: an id collision aborts the
\* statement even when the url has a row
UpsertIdFirst(st, id, url) ==
    IF RowsWithId(st, id) # {} /\ RowsWithId(st, id) # RowsWithUrl(st, url)
    THEN [ok |-> FALSE, id |-> <<>>, err |-> "UniqueViolation", store |-> st]
    ELSE IF RowsWithUrl(st, url) # {}
    THEN LET old == CHOOSE r \in RowsWithUrl(st, url) : TRUE
         IN  [ok |-> TRUE, id |-> old.id, err |-> "", store |-> st]
    ELSE [ok |-> TRUE, id |-> id, err |-> "",
          store |-> st \cup {[id |-> id, url |-> url]}]

\* INSERT INTO short_urls (id, url) VALUES ($1, $2)
\*   ON CONFLICT(url) DO UPDATE SET url=EXCLUDED.url RETURNING id
\* The UNIQUE index on url is the upsert target and is probed first: on a hit
\* the existing row is updated (url := the same url) and its id returned.
\* Otherwise the PRIMARY KEY index is probed: a hit aborts the statement.
Upsert(st, id, url) ==
    IF RowsWithUrl(st, url) # {}
    THEN LET old == CHOOSE r \in RowsWithUrl(st, url) : TRUE
             new == [old EXCEPT !.url = url]
         IN  [ok |-> TRUE, id |-> new.id, err |-> "",
              store |-> (st \ {old}) \cup {new}]
    ELSE IF RowsWithId(st, id) # {}
    THEN [ok |-> FALSE, id |-> <<>>, err |-> "UniqueViolation", store |-> st]
    ELSE [ok |-> TRUE, id |-> id, err |-> "",
          store |-> st \cup {[id |-> id, url |-> url]}]

\* SELECT url FROM short_urls (the WHERE clause forgotten): any row answers
GetUrlAnyRow(st, id) ==
    IF st = {}
    THEN {[ok |-> FALSE, url |-> <<>>, err |-> "RowNotFound"]}
    ELSE {[ok |-> TRUE, url |-> r.url, err |-> ""] : r \in st}

\* fetch_optional(...).map(|r| r.url).unwrap_or_default(): no row, empty url
GetUrlOrDefault(st, id) ==
    IF RowsWithId(st, id) = {}
    THEN {[ok |-> TRUE, url |-> <<>>, err |-> ""]}
    ELSE {[ok |-> TRUE, url |-> r.url, err |-> ""] : r \in RowsWithId(st, id)}

\* SELECT url FROM short_urls WHERE id = $1, fetch_one: the possible results
GetUrl(st, id) ==
    IF RowsWithId(st, id) = {}
    THEN {[ok |-> FALSE, url |-> <<>>, err |-> "RowNotFound"]}
    ELSE {[ok |-> TRUE, url |-> r.url, err |-> ""] : r \in RowsWithId(st, id)}

\* Ok(id) in place of Ok(row.id): the drawn candidate is returned
AppShortenReturnsCandidate(st, id, url) ==
    LET r == Upsert(st, id, url)
    IN  [ok |-> r.ok, id |-> IF r.ok THEN id ELSE <<>>, err |-> r.err,
         store |-> r.store, trips |-> 1]

\* the statement run in a transaction that is dropped without commit()
AppShortenNoCommit(st, id, url) ==
    LET r == Upsert(st, id, url)
    IN  [ok |-> r.ok, id |-> r.id, err |-> r.err, store |-> st, trips |-> 1]

\* a retry loop `for _ in 0..=5` that gives up one attempt too late
AppShortenSixTries(st, id, url) ==
    LET r == Upsert(st, id, url)
    IN  [ok |-> r.ok, id |-> r.id, err |-> r.err, store |-> r.store,
         trips |-> IF r.ok THEN 1 ELSE 6]

\* a retry loop: on a failed statement draw another candidate and run it again
AppShortenRetry(st, id, url) ==
    LET r1 == Upsert(st, id, url)
        id2 == CHOOSE c \in Candidates : c # id
        r2 == Upsert(st, id2, url)
    IN  IF r1.ok
        THEN [ok |-> TRUE, id |-> r1.id, err |-> "", store |-> r1.store,
              trips |-> 1]
        ELSE [ok |-> r2.ok, id |-> r2.id, err |-> r2.err, store |-> r2.store,
              trips |-> 2]

\* AppState::shorten after the id is drawn: one fetch_one, `?`, Ok(row.id)
AppShorten(st, id, url) ==
    LET r == Upsert(st, id, url)
    IN  [ok |-> r.ok, id |-> r.id, err |-> r.err, store |-> r.store,
         trips |-> 1]

\* http::HeaderValue::from_str: every byte must be >= 32 and not DEL, or a tab
IsValidHeaderByte(b) == (b >= 32 /\ b # 127) \/ b = 9

ParseHeaderValue(s) ==
    IF \A i \in 1..Len(s) : IsValidHeaderByte(s[i])
    THEN [ok |-> TRUE, value |-> [i \in 1..Len(s) |-> s[i]]]
    ELSE [ok |-> FALSE, value |-> <<>>]

\* redirect: map_err(|_| NOT_FOUND), then url.parse().unwrap() into Location
RedirectResponse(id, res) ==
    IF ~res.ok
    THEN [NoResp EXCEPT !.op = "redirect", !.id = id, !.status = "NOT_FOUND",
                        !.err = res.err, !.trips = 1]
    ELSE IF ~ParseHeaderValue(res.url).ok
    THEN [NoResp EXCEPT !.op = "redirect", !.id = id, !.status = "PANIC",
                        !.url = res.url, !.trips = 1]
    ELSE [NoResp EXCEPT !.op = "redirect", !.id = id,
                        !.status = "PERMANENT_REDIRECT", !.url = res.url,
                        !.location = ParseHeaderValue(res.url).value,
                        !.trips = 1]

\* LISTEN_ADDR, "127.0.0.1:8080"
ListenAddr == <<49, 50, 55, 46, 48, 46, 48, 46, 49, 58, 56, 48, 56, 48>>

\* nanoid's default alphabet, in its order: _ - 0..9 a..z A..Z
SafeAlphabet ==
    <<95, 45>> \o [i \in 1..10 |-> 47 + i] \o [i \in 1..26 |-> 96 + i]
               \o [i \in 1..26 |-> 64 + i]

\* the text of an identifier: symbol k is the k-th character of the alphabet
IdText(id) == [i \in 1..Len(id) |-> SafeAlphabet[id[i] + 1]]

\* format!("http://{}/{}", LISTEN_ADDR, id)
ShortUrl(id) ==
    <<104, 116, 116, 112, 58, 47, 47>> \o ListenAddr \o <<47>> \o IdText(id)

\* shorten (handler): map_err(|e| UNPROCESSABLE_ENTITY), else CREATED
ShortenResponse(url, cand, r) ==
    IF r.ok
    THEN [NoResp EXCEPT !.op = "shorten", !.url = url, !.cand = cand,
                        !.status = "CREATED", !.id = r.id, !.trips = r.trips,
                        !.body = ShortUrl(r.id)]
    ELSE [NoResp EXCEPT !.op = "shorten", !.url = url, !.cand = cand,
                        !.status = "UNPROCESSABLE_ENTITY", !.err = r.err,
                        !.trips = r.trips]

\* ------------------------------------------------------------ the database
\* the location before the first start: no database file
NoDatabase == [exists |-> FALSE, tables |-> [t \in {} |-> {}]]

\* the database file of a service whose table holds the rows st
Database(st) == [exists |-> TRUE, tables |-> [t \in {"short_urls"} |-> st]]

\* DROP TABLE IF EXISTS short_urls; CREATE TABLE short_urls (...)
CreateTableDropFirst(tables) ==
    [t \in DOMAIN tables \cup {"short_urls"} |->
        IF t = "short_urls" THEN {} ELSE tables[t]]

\* CREATE TABLE IF NOT EXISTS short_urls (...)
CreateTableIfNotExists(tables) ==
    IF "short_urls" \in DOMAIN tables
    THEN tables
    ELSE [t \in DOMAIN tables \cup {"short_urls"} |->
             IF t \in DOMAIN tables THEN tables[t] ELSE {}]

\* AppState::try_new: create the database if it does not exist, connect,
\* create the table if it does not exist
TryNew(db) ==
    LET opened == IF ~db.exists
                  THEN [exists |-> TRUE, tables |-> [t \in {} |-> {}]]
                  ELSE db
    IN  [opened EXCEPT !.tables = CreateTableIfNotExists(opened.tables)]

\* ----------------------------------------------------------------- actions
Init ==
    /\ store = TryNew(NoDatabase).tables["short_urls"]
    /\ boots = 1
    /\ kept = {}
    /\ pc = [p \in Procs |-> "idle"]
    /\ req = [p \in Procs |-> NoReq]
    /\ resp = [p \in Procs |-> NoResp]
    /\ raced = [p \in Procs |-> FALSE]
    /\ lapped = [p \in Procs |-> FALSE]
    /\ issued = {}

\* the other handlers in flight with a shorten of the same url
InFlightSame(p, u) ==
    {q \in Procs \ {p} : pc[q] = "insert" /\ req[q].url = u}

\* the other handlers in flight with a shorten
InFlight(p) == {q \in Procs \ {p} : pc[q] = "insert"}

\* POST / with body {url: u} arrives on connection p
ShortenBegin(p, u) ==
    /\ pc[p] = "idle"
    /\ pc' = [pc EXCEPT ![p] = "insert"]
    /\ req' = [req EXCEPT ![p] = [op |-> "shorten", url |-> u, id |-> <<>>]]
    /\ resp' = [resp EXCEPT ![p] = NoResp]
    /\ raced' = [q \in Procs |->
                    IF q = p THEN InFlightSame(p, u) # {}
                    ELSE IF q \in InFlightSame(p, u) THEN TRUE
                    ELSE raced[q]]
    /\ lapped' = [q \in Procs |->
                     IF q = p THEN InFlight(p) # {}
                     ELSE IF q \in InFlight(p) THEN TRUE
                     ELSE lapped[q]]
    /\ UNCHANGED <<store, issued, boots, kept>>

\* AppState::shorten draws c = nanoid!(6) (a value that depends on no state,
\* so it is drawn here), the upsert statement runs, and the handler answers
ShortenExec(p, c) ==
    /\ pc[p] = "insert"
    /\ LET r == AppShorten(store, c, req[p].url)
       IN  /\ store' = r.store
           /\ resp' = [resp EXCEPT ![p] = ShortenResponse(req[p].url, c, r)]
           /\ issued' = IF r.ok
                        THEN issued \cup {[id |-> r.id, url |-> req[p].url]}
                        ELSE issued
    /\ pc' = [pc EXCEPT ![p] = "idle"]
    /\ req' = [req EXCEPT ![p] = NoReq]
    /\ UNCHANGED <<raced, lapped, boots, kept>>

\* GET /:id arrives on connection p
RedirectBegin(p, i) ==
    /\ pc[p] = "idle"
    /\ pc' = [pc EXCEPT ![p] = "select"]
    /\ req' = [req EXCEPT ![p] = [op |-> "redirect", url |-> <<>>, id |-> i]]
    /\ resp' = [resp EXCEPT ![p] = NoResp]
    /\ raced' = [raced EXCEPT ![p] = FALSE]
    /\ lapped' = [lapped EXCEPT ![p] = FALSE]
    /\ UNCHANGED <<store, issued, boots, kept>>

\* DELETE FROM short_urls WHERE id = $1 RETURNING url: a one-shot link
RedirectExecDeletes(p) ==
    /\ pc[p] = "select"
    /\ \E res \in GetUrl(store, req[p].id) :
          resp' = [resp EXCEPT ![p] = RedirectResponse(req[p].id, res)]
    /\ store' = store \ RowsWithId(store, req[p].id)
    /\ pc' = [pc EXCEPT ![p] = "idle"]
    /\ req' = [req EXCEPT ![p] = NoReq]
    /\ UNCHANGED <<raced, lapped, issued, boots, kept>>

\* the select statement runs, and the handler answers (or panics)
RedirectExec(p) ==
    /\ pc[p] = "select"
    /\ \E res \in GetUrl(store, req[p].id) :
          resp' = [resp EXCEPT ![p] = RedirectResponse(req[p].id, res)]
    /\ pc' = [pc EXCEPT ![p] = "idle"]
    /\ req' = [req EXCEPT ![p] = NoReq]
    /\ UNCHANGED <<store, raced, lapped, issued, boots, kept>>

Next ==
    \/ \E p \in Procs, u \in Urls : ShortenBegin(p, u)
    \/ \E p \in Procs, c \in Candidates : ShortenExec(p, c)
    \/ \E p \in Procs, i \in PathIds : RedirectBegin(p, i)
    \/ \E p \in Procs : RedirectExec(p)

Spec == Init /\ [][Next]_vars

\* every handler task is polled again once its statement has completed: the
\* runtime schedules each spawned task, and SQLite answers each statement
Fairness ==
    \A p \in Procs :
       /\ WF_vars(\E c \in Candidates : ShortenExec(p, c))
       /\ WF_vars(RedirectExec(p))

\* the request bodies posted in SpecLive: the two well-formed urls
LiveUrls == {UrlA, UrlB}

NextLive ==
    \/ \E p \in Procs, u \in LiveUrls : ShortenBegin(p, u)
    \/ \E p \in Procs, c \in Candidates : ShortenExec(p, c)
    \/ \E p \in Procs, i \in PathIds : RedirectBegin(p, i)
    \/ \E p \in Procs : RedirectExec(p)

\* the service under fair scheduling of its handlers
SpecLive == Init /\ [][NextLive]_vars /\ Fairness

\* the service is stopped and started again on the same database file:
\* handlers in flight are dropped, try_new runs on the existing location
TryNewAgain ==
    /\ boots < MaxBoots
    /\ boots' = boots + 1
    /\ kept' = store
    /\ store' = TryNew(Database(store)).tables["short_urls"]
    /\ pc' = [p \in Procs |-> "idle"]
    /\ req' = [p \in Procs |-> NoReq]
    /\ resp' = [p \in Procs |-> NoResp]
    /\ raced' = [p \in Procs |-> FALSE]
    /\ lapped' = [p \in Procs |-> FALSE]
    /\ UNCHANGED issued

NextReinit ==
    \/ NextLive
    \/ TryNewAgain

\* the service over several starts on one database file
SpecReinit == Init /\ [][NextReinit]_vars

\* ---------------------------------------------- the store failing to answer
\* fetch_one(&self.db).await? when the pool or the file fails: Err(Io), no
\* change to the table; AppState::shorten passes it up after its one attempt
AppShortenFault(st, id, url) ==
    [ok |-> FALSE, id |-> <<>>, err |-> "Io", store |-> st, trips |-> 1]

\* the same failure of the select statement in AppState::get_url
GetUrlFault(st, id) == {[ok |-> FALSE, url |-> <<>>, err |-> "Io"]}

\* POST /: the statement fails with a storage error, and the handler answers
ShortenExecFault(p, c) ==
    /\ pc[p] = "insert"
    /\ LET r == AppShortenFault(store, c, req[p].url)
       IN  /\ store' = r.store
           /\ resp' = [resp EXCEPT ![p] = ShortenResponse(req[p].url, c, r)]
    /\ pc' = [pc EXCEPT ![p] = "idle"]
    /\ req' = [req EXCEPT ![p] = NoReq]
    /\ UNCHANGED <<raced, lapped, issued, boots, kept>>

\* GET /:id: the statement fails with a storage error, and the handler answers
RedirectExecFault(p) ==
    /\ pc[p] = "select"
    /\ \E res \in GetUrlFault(store, req[p].id) :
          resp' = [resp EXCEPT ![p] = RedirectResponse(req[p].id, res)]
    /\ pc' = [pc EXCEPT ![p] = "idle"]
    /\ req' = [req EXCEPT ![p] = NoReq]
    /\ UNCHANGED <<store, raced, lapped, issued, boots, kept>>

NextFault ==
    \/ Next
    \/ \E p \in Procs, c \in Candidates : ShortenExecFault(p, c)
    \/ \E p \in Procs : RedirectExecFault(p)

\* the service with a store that may fail to answer
SpecFault == Init /\ [][NextFault]_vars

TypeOK ==
    /\ \A r \in store : r.id \in Candidates /\ r.url \in Urls
    /\ \A p \in Procs : pc[p] \in {"idle", "insert", "select"}
    /\ issued \subseteq store
    /\ boots \in 1..MaxBoots
    /\ kept \subseteq store

\* ------------------------------------------------------------------ claims
Created(p) == resp[p].op = "shorten" /\ resp[p].status = "CREATED"

Failed(p) == resp[p].op = "shorten" /\ resp[p].status = "UNPROCESSABLE_ENTITY"

\* p and q both hold the answer to a shorten of the same well-formed url
SameUrlAnswered(p, q) ==
    /\ p # q
    /\ resp[p].op = "shorten"
    /\ resp[q].op = "shorten"
    /\ resp[p].url = resp[q].url
    /\ IsWellFormedUrl(resp[p].url)

\* every stored url is well-formed (no rejected-by-the-spec input is involved)
OnlyWellFormedStored == \A r \in store : IsWellFormedUrl(r.url)

\* the call failed because the one candidate it drew is another url's id
FailedByCollision(p) ==
    /\ resp[p].err = "UniqueViolation"
    /\ \E r \in store : r.id = resp[p].cand /\ r.url # resp[p].url

\* what holds of two answered calls for the same url
AgreeWhenCreated(p, q) ==
    /\ (Created(p) /\ Created(q)) => resp[p].id = resp[q].id
    /\ \A x \in {p, q} :
          /\ Created(x) =>
                RowsWithUrl(store, resp[x].url)
                   = {[id |-> resp[x].id, url |-> resp[x].url]}
          /\ Failed(x) => FailedByCollision(x)
    /\ Cardinality(RowsWithUrl(store, resp[p].url)) <= 1

\* C1 as stated: two successive (not overlapping) shorten(u) calls for a
\* well-formed u both return a short_id, the same one, and the store then
\* holds exactly one row whose url is u.
C1_Original ==
    \A p, q \in Procs :
       (SameUrlAnswered(p, q) /\ ~raced[p] /\ ~raced[q]
           /\ OnlyWellFormedStored) =>
          /\ Created(p) /\ Created(q)
          /\ resp[p].id = resp[q].id
          /\ Cardinality(RowsWithUrl(store, resp[p].url)) = 1

\* C1 amended: two successive shorten(u) calls for a well-formed u that both
\* return a short_id return the same one; after a call that returned one the
\* store holds exactly one row whose url is u, with that id; there is never
\* more than one row for u; and a call fails only because the candidate it
\* drew is the id of a different url.
C1_Idempotent ==
    \A p, q \in Procs :
       (SameUrlAnswered(p, q) /\ ~raced[p] /\ ~raced[q]) =>
          AgreeWhenCreated(p, q)

\* two successive calls for one url, the second with another candidate
C1_Witness ==
    \E p, q \in Procs :
       /\ SameUrlAnswered(p, q) /\ ~raced[p] /\ ~raced[q]
       /\ Created(p) /\ Created(q)
       /\ resp[p].cand # resp[q].cand
       /\ resp[p].id = resp[q].id

\* C2 as stated: when the callers invoke shorten(u) concurrently (their calls
\* overlap), all calls return a short_id, the same one, and the store ends
\* with exactly one row for u.
C2_Original ==
    \A p, q \in Procs :
       (SameUrlAnswered(p, q) /\ raced[p] /\ raced[q]
           /\ OnlyWellFormedStored) =>
          /\ Created(p) /\ Created(q)
          /\ resp[p].id = resp[q].id
          /\ Cardinality(RowsWithUrl(store, resp[p].url)) = 1

\* C2 amended: of the overlapping shorten(u) calls, those that return a
\* short_id return the same one, and then the store holds exactly one row for
\* u; the store never holds two rows for u; a call fails only because the
\* candidate it drew is the id of a different url.
C2_ConcurrentIdempotent ==
    \A p, q \in Procs :
       (SameUrlAnswered(p, q) /\ raced[p] /\ raced[q]) =>
          AgreeWhenCreated(p, q)

\* two overlapping calls for one url that drew different candidates
C2_Witness ==
    \E p, q \in Procs :
       /\ SameUrlAnswered(p, q) /\ raced[p] /\ raced[q]
       /\ Created(p) /\ Created(q)
       /\ resp[p].cand # resp[q].cand
       /\ resp[p].id = resp[q].id

\* C3: no two rows share a short_id, no two rows share a long_url, and the
\* short_ids returned for distinct urls are distinct.
C3_Bijection ==
    /\ \A r1, r2 \in store :
          (r1.id = r2.id \/ r1.url = r2.url) => r1 = r2
    /\ \A a, b \in issued : a.url # b.url => a.id # b.id
    /\ \A p, q \in Procs :
          (Created(p) /\ Created(q) /\ resp[p].url # resp[q].url) =>
             resp[p].id # resp[q].id

\* two created answers for the two well-formed urls, two rows in the store
C3_Witness ==
    \E p, q \in Procs :
       /\ Created(p) /\ Created(q)
       /\ resp[p].url = UrlA /\ resp[q].url = UrlB
       /\ Cardinality(store) >= 2

\* the step in which p's upsert statement runs and p's handler answers
ShortenStep(p) == pc[p] = "insert" /\ pc'[p] = "idle"

\* the step in which p's select statement runs and p's handler answers
RedirectStep(p) == pc[p] = "select" /\ pc'[p] = "idle"

\* C4: if shorten(u) returned id X for a well-formed u, every later
\* resolve(X) succeeds and returns exactly u.
C4_RoundTrip ==
    [][\A p \in Procs : RedirectStep(p) =>
          \A r \in issued :
             (r.id = req[p].id /\ IsWellFormedUrl(r.url)) =>
                /\ resp'[p].err = ""
                /\ resp'[p].status # "NOT_FOUND"
                /\ resp'[p].url = r.url]_vars

\* an issued id resolved to its url while the store holds another row too
C4_Witness ==
    \E p \in Procs :
       /\ resp[p].op = "redirect"
       /\ resp[p].url = UrlA
       /\ [id |-> resp[p].id, url |-> UrlA] \in issued
       /\ Cardinality(store) >= 2

\* C5 as stated: shorten of a string that is not a well-formed absolute url
\* fails, and the store has no row whose url is that string.
C5_InvalidRejected ==
    \A p \in Procs :
       (resp[p].op = "shorten" /\ ~IsWellFormedUrl(resp[p].url)) =>
          /\ Failed(p)
          /\ RowsWithUrl(store, resp[p].url) = {}

\* C6 as stated: a shorten call whose candidate collided fails only after
\* all 5 attempts collided.
C6_Original ==
    \A p \in Procs :
       (Failed(p) /\ IsWellFormedUrl(resp[p].url) /\ OnlyWellFormedStored) =>
          resp[p].trips = 5

\* C6 amended: every shorten call makes exactly 1 attempt.  When u has no row
\* and the candidate is the id of a different url, the call fails at once
\* with the store's unique-constraint error and the store is unchanged; when
\* u has no row and the candidate is free the call succeeds with the
\* candidate; a call fails in no other case.
C6_SingleAttempt ==
    [][\A p \in Procs : ShortenStep(p) =>
          LET u == req[p].url
              c == resp'[p].cand
              fresh == RowsWithUrl(store, u) = {}
              taken == RowsWithId(store, c) # {}
          IN  /\ resp'[p].trips = 1
              /\ (fresh /\ taken) =>
                    /\ resp'[p].status = "UNPROCESSABLE_ENTITY"
                    /\ resp'[p].err = "UniqueViolation"
                    /\ store' = store
              /\ (fresh /\ ~taken) =>
                    /\ resp'[p].status = "CREATED"
                    /\ resp'[p].id = c
              /\ resp'[p].status = "UNPROCESSABLE_ENTITY" => (fresh /\ taken)
      ]_vars

\* a call for a well-formed url that failed on its first and only attempt
C6_Witness ==
    \E p \in Procs :
       /\ Failed(p)
       /\ IsWellFormedUrl(resp[p].url)
       /\ OnlyWellFormedStored
       /\ FailedByCollision(p)
       /\ resp[p].trips = 1

\* C7: resolve(X) for an X that has no row fails with the row-not-found
\* error, which reaches the handler unchanged and is answered "not found".
C7_UnknownId ==
    [][\A p \in Procs :
          (RedirectStep(p) /\ RowsWithId(store, req[p].id) = {}) =>
             /\ resp'[p].err = "RowNotFound"
             /\ resp'[p].status = "NOT_FOUND"
             /\ resp'[p].url = <<>>
             /\ resp'[p].location = <<>>]_vars

\* the never-issued id was looked up in a store that holds rows
C7_Witness ==
    \E p \in Procs :
       /\ resp[p].op = "redirect"
       /\ resp[p].id = NeverIssued
       /\ resp[p].status = "NOT_FOUND"
       /\ store # {}

\* C8: a row, once stored, is in every later store, and stays the only row
\* with its id and the only row with its url.
C8_Immutable ==
    [][\A r \in store :
          /\ r \in store'
          /\ RowsWithId(store', r.id) = {r}
          /\ RowsWithUrl(store', r.url) = {r}]_vars

\* a url was re-submitted with another candidate, and a call has failed
C8_Witness ==
    \E p, q \in Procs :
       /\ Created(p) /\ resp[p].cand # resp[p].id
       /\ Failed(q)
       /\ Cardinality(store) >= 2

\* C9 as stated: whenever the candidate is already the id of a row with a
\* different url, the attempt fails with a conflict and the store is unchanged.
C9_Original ==
    [][\A p \in Procs :
          (/\ ShortenStep(p)
           /\ IsWellFormedUrl(req[p].url)
           /\ OnlyWellFormedStored
           /\ \E r \in store : r.id = resp'[p].cand /\ r.url # req[p].url) =>
             /\ resp'[p].status = "UNPROCESSABLE_ENTITY"
             /\ resp'[p].err = "UniqueViolation"
             /\ store' = store]_vars

\* C9 amended: whenever the candidate is already the id of a row with a
\* different url, the store is unchanged by the attempt (that row keeps its
\* url, no row is added); the attempt fails with a conflict if the url has no
\* row of its own, and otherwise returns the id of the url's own row.
C9_NoOverwrite ==
    [][\A p \in Procs :
          (/\ ShortenStep(p)
           /\ \E r \in store : r.id = resp'[p].cand /\ r.url # req[p].url) =>
             /\ store' = store
             /\ RowsWithUrl(store, req[p].url) = {} =>
                   /\ resp'[p].status = "UNPROCESSABLE_ENTITY"
                   /\ resp'[p].err = "UniqueViolation"
             /\ RowsWithUrl(store, req[p].url) # {} =>
                   /\ resp'[p].status = "CREATED"
                   /\ [id |-> resp'[p].id, url |-> req[p].url] \in store
      ]_vars

\* both cases have happened: a failed collision, and a re-submission whose
\* candidate is another url's id
C9_Witness ==
    \E p, q \in Procs :
       /\ Failed(p) /\ FailedByCollision(p)
       /\ Created(q)
       /\ \E r \in store : r.id = resp[q].cand /\ r.url # resp[q].url

\* C10 as stated: GET /<short_id> answers a permanent redirect to the stored
\* url when the id has a row, and "not found" when it has none.
C10_RedirectTotal ==
    [][\A p \in Procs : RedirectStep(p) =>
          IF RowsWithId(store, req[p].id) # {}
          THEN /\ resp'[p].status = "PERMANENT_REDIRECT"
               /\ [id |-> req[p].id, url |-> resp'[p].location] \in store
          ELSE resp'[p].status = "NOT_FOUND"]_vars

\* C11 as stated: POST / answers "created" with the base followed by the
\* short_id stored for u when shorten(u) succeeds, and "unprocessable" when u
\* is invalid or cannot be shortened.
C11_PostResponse ==
    \A p \in Procs :
       resp[p].op = "shorten" =>
          /\ resp[p].status \in {"CREATED", "UNPROCESSABLE_ENTITY"}
          /\ Created(p) =>
                \E r \in RowsWithUrl(store, resp[p].url) :
                   resp[p].body
                      = <<104, 116, 116, 112, 58, 47, 47>> \o ListenAddr
                           \o <<47>> \o IdText(r.id)
          /\ Failed(p) => resp[p].body = <<>>
          /\ ~IsWellFormedUrl(resp[p].url) => Failed(p)

\* C12: shorten(u) for a well-formed u with no row, with a candidate that is
\* not in the store, inserts exactly the row (candidate, u), returns the
\* candidate, and leaves every other row as it was.
C12_FirstCreation ==
    [][\A p \in Procs :
          (/\ ShortenStep(p)
           /\ IsWellFormedUrl(req[p].url)
           /\ RowsWithUrl(store, req[p].url) = {}
           /\ RowsWithId(store, resp'[p].cand) = {}) =>
             /\ store' = store \cup {[id |-> resp'[p].cand, url |-> req[p].url]}
             /\ Cardinality(store') = Cardinality(store) + 1
             /\ resp'[p].status = "CREATED"
             /\ resp'[p].id = resp'[p].cand]_vars

\* a first creation into a store that already held another row
C12_Witness ==
    \E p \in Procs :
       /\ Created(p)
       /\ IsWellFormedUrl(resp[p].url)
       /\ resp[p].id = resp[p].cand
       /\ \E r \in store : r.id # resp[p].id /\ r.url # resp[p].url

\* C13: if u already has a row with id Y, shorten(u) returns Y and leaves the
\* store unchanged whatever candidate it draws, also a candidate that is the
\* id of a different url.
C13_ExistingWins ==
    [][\A p \in Procs :
          (ShortenStep(p) /\ RowsWithUrl(store, req[p].url) # {}) =>
             /\ resp'[p].status = "CREATED"
             /\ [id |-> resp'[p].id, url |-> req[p].url] \in store
             /\ store' = store]_vars

\* a well-formed url re-submitted with a candidate that is another url's id
C13_Witness ==
    \E p \in Procs :
       /\ Created(p)
       /\ IsWellFormedUrl(resp[p].url)
       /\ resp[p].id # resp[p].cand
       /\ \E r \in store : r.id = resp[p].cand /\ r.url # resp[p].url

\* p and q hold the answers to overlapping shorten calls for different urls
\* that drew the same candidate
SameCandAnswered(p, q) ==
    /\ p # q
    /\ resp[p].op = "shorten"
    /\ resp[q].op = "shorten"
    /\ lapped[p] /\ lapped[q]
    /\ resp[p].url # resp[q].url
    /\ resp[p].cand = resp[q].cand

\* p's call stored the row whose id is the candidate it drew
StoredCandidate(p) == Created(p) /\ resp[p].id = resp[p].cand

\* C14 as stated: each attempt is one statement; of two overlapping shorten
\* calls for different urls that drew the same candidate, at most one stores
\* a row with that id, and the other observes a conflict.
C14_Original ==
    \A p, q \in Procs :
       (/\ SameCandAnswered(p, q)
        /\ IsWellFormedUrl(resp[p].url) /\ IsWellFormedUrl(resp[q].url)
        /\ OnlyWellFormedStored) =>
          /\ resp[p].trips = 1 /\ resp[q].trips = 1
          /\ ~(StoredCandidate(p) /\ StoredCandidate(q))
          /\ StoredCandidate(p) =>
                (Failed(q) /\ resp[q].err = "UniqueViolation")

\* C14 amended: each attempt is one statement; of two overlapping shorten
\* calls for different urls that drew the same candidate, at most one stores
\* a row with that id and the store never holds two rows with it; the other
\* call observes a conflict, unless its url already has a row, and then it
\* returns the id of that row.
C14_AtomicArbitration ==
    \A p, q \in Procs :
       SameCandAnswered(p, q) =>
          /\ resp[p].trips = 1 /\ resp[q].trips = 1
          /\ ~(StoredCandidate(p) /\ StoredCandidate(q))
          /\ Cardinality(RowsWithId(store, resp[p].cand)) <= 1
          /\ StoredCandidate(p) =>
                \/ Failed(q) /\ resp[q].err = "UniqueViolation"
                \/ /\ Created(q)
                   /\ resp[q].id # resp[q].cand
                   /\ [id |-> resp[q].id, url |-> resp[q].url] \in store

\* two overlapping calls, one candidate: one stored it, the other failed
C14_Witness ==
    \E p, q \in Procs :
       /\ SameCandAnswered(p, q)
       /\ IsWellFormedUrl(resp[p].url) /\ IsWellFormedUrl(resp[q].url)
       /\ StoredCandidate(p)
       /\ Failed(q) /\ resp[q].err = "UniqueViolation"

\* C15 as stated (under SpecFault): a storage failure is attempted once and
\* reaches the caller as an outcome of its own: no answer to a storage failure
\* has the status of an answer to a missing row or to an id conflict.
C15_StorageErrorDistinct ==
    \A p \in Procs :
       resp[p].err = "Io" =>
          /\ resp[p].trips = 1
          /\ \A q \in Procs :
                resp[q].err \in {"RowNotFound", "UniqueViolation"} =>
                   resp[q].status # resp[p].status

\* the store round-trips each answered call has made
TripsBounded ==
    \A p \in Procs :
       /\ resp[p].op = "shorten" => (resp[p].trips >= 1 /\ resp[p].trips <= 5)
       /\ resp[p].op = "redirect" => resp[p].trips = 1

\* C16 (under SpecLive, where every store round-trip completes): every
\* shorten call ends after at most 5 store round-trips and every resolve call
\* after exactly one; every call in flight is eventually answered.
C16_BoundedWork ==
    /\ []TripsBounded
    /\ \A p \in Procs : (pc[p] # "idle") ~> (pc[p] = "idle")

\* a shorten that collided and a resolve have both been answered
C16_Witness ==
    \E p, q \in Procs :
       /\ Failed(p) /\ resp[p].err = "UniqueViolation" /\ resp[p].trips = 1
       /\ resp[q].op = "redirect" /\ resp[q].trips = 1
       /\ pc[p] = "idle" /\ pc[q] = "idle"

\* a letter, a digit, '-' or '_'
IsUrlSafeChar(b) ==
    \/ IsAlpha(b)
    \/ (b >= 48 /\ b <= 57)
    \/ b = 45
    \/ b = 95

\* six characters, each url-safe
HasIdShape(id) ==
    /\ Len(IdText(id)) = 6
    /\ \A i \in 1..6 : IsUrlSafeChar(IdText(id)[i])

\* C17: every short_id in the store and every short_id a successful shorten
\* returned (newly minted or pre-existing) is exactly 6 characters long, each
\* from the 64-symbol url-safe alphabet.
C17_IdShape ==
    /\ Cardinality({SafeAlphabet[i] : i \in 1..Len(SafeAlphabet)}) = 64
    /\ \A i \in 1..Len(SafeAlphabet) : IsUrlSafeChar(SafeAlphabet[i])
    /\ \A r \in store \cup issued : HasIdShape(r.id)
    /\ \A p \in Procs : Created(p) => HasIdShape(resp[p].id)

\* a newly minted id and a pre-existing id have both been returned
C17_Witness ==
    \E p, q \in Procs :
       /\ Created(p) /\ resp[p].id = resp[p].cand
       /\ Created(q) /\ resp[q].id # resp[q].cand
       /\ Cardinality(store) >= 2

\* C18 (under SpecReinit): running try_new on a location that already holds
\* mappings leaves every row as it was, and the rows held at that moment
\* still resolve to the same urls afterwards.
C18_ReinitKeepsRows ==
    [][/\ boots' # boots => store' = store
       /\ \A r \in kept' :
             GetUrl(store', r.id) = {[ok |-> TRUE, url |-> r.url, err |-> ""]}
      ]_vars

\* after a second start, an id stored before it was resolved to its url
C18_Witness ==
    \E p \in Procs :
       /\ boots >= 2
       /\ resp[p].op = "redirect"
       /\ resp[p].status = "PERMANENT_REDIRECT"
       /\ [id |-> resp[p].id, url |-> resp[p].url] \in kept

\* C19: a resolve call, successful or not, leaves the rows of the store
\* exactly as they were.
C19_ResolveReadOnly ==
    [][\A p \in Procs : RedirectStep(p) => store' = store]_vars

\* a successful and an unsuccessful resolve against a store that holds rows
C19_Witness ==
    \E p, q \in Procs :
       /\ resp[p].op = "redirect" /\ resp[p].status = "PERMANENT_REDIRECT"
       /\ resp[q].op = "redirect" /\ resp[q].status = "NOT_FOUND"
       /\ resp[q].err = "RowNotFound"
       /\ store # {}

====
